---- MODULE Spec2Model ----
(***************************************************************************)
(* papaya's serde bridge (src/serde_impls.rs): Serialize for HashMap,      *)
(* HashMapRef, HashSet, HashSetRef and the three deserialization visitors  *)
(* (MapVisitor::visit_map, SetVisitor<_, _, Collector>::visit_seq,         *)
(* SetVisitor<_, _, Arc<Collector>>::visit_seq).                           *)
(*                                                                         *)
(* A call is one invocation of an entry point on one thread.  Every call   *)
(* steps through the statements of its function; the external serializer   *)
(* and decoder are the environment: the serializer accepts or rejects each *)
(* item it is fed, the decoder delivers the items of a finite stream that  *)
(* ends with end-of-input or with a format error.  The container library   *)
(* (pin, insert, iteration, construction) lives outside serde_impls.rs and *)
(* is modelled at its interface.                                           *)
(***************************************************************************)
EXTENDS Integers, Sequences, FiniteSets, TLC

\* ------------------------------------------------------------------ bounds
\* Longest item stream a decoder delivers.
MaxLen == 3
\* Longest item stream when two calls run interleaved.
MaxConcLen == 2
\* Most concurrent mutations other threads apply to a container being serialized.
MaxMutations == 2

\* ---------------------------------------------------------------- universe
Calls == {1, 2}
Keys == {0, 1}
Vals == {0, 1}
\* The value type of a set's entries: HashSet<K> stores keys only.
Unit == "unit"
\* Format errors of the external serializer / decoder (opaque to the bridge).
Errors == {"e1", "e2"}
NoErr == "-"
\* Option<usize> of size_hint(), as a set: None is {}, Some(n) is {n}.  The
\* hints: None, 0, the true count, or a mismatched count.
None == {}
Some(n) == {n}
Hints == {None} \cup {Some(n) : n \in 0 .. MaxLen + 1}
\* `match hint { Some(size) => size, None => d }`
SizeOr(h, d) == IF h = None THEN d ELSE CHOOSE n \in h : TRUE

SerMapKinds == {"HashMap_serialize", "HashMapRef_serialize"}
SerSetKinds == {"HashSet_serialize", "HashSetRef_serialize"}
SerKinds == SerMapKinds \cup SerSetKinds
RefKinds == {"HashMapRef_serialize", "HashSetRef_serialize"}
SetVisitorKinds == {"SetVisitor_visit_seq", "SetVisitorArc_visit_seq"}
DeKinds == {"MapVisitor_visit_map"} \cup SetVisitorKinds
Kinds == SerKinds \cup DeKinds
MapKinds == SerMapKinds \cup {"MapVisitor_visit_map"}

SeqsUpTo(S, n) == UNION {[1 .. m -> S] : m \in 0 .. n}
Range(s) == {s[i] : i \in DOMAIN s}

\* ------------------------------------------------------ container library
\* A table's entries: a function from the keys present to their values.
EmptyEntries == [k \in {} |-> Unit]
MapEntries == UNION {[D -> Vals] : D \in SUBSET Keys}
SetEntries == UNION {[D -> {Unit}] : D \in SUBSET Keys}

\* HashMap::insert / HashSet::insert through a pinned reference: always
\* succeeds; an existing key is overwritten.
Insert(entries, k, v) ==
    [x \in (DOMAIN entries) \cup {k} |-> IF x = k THEN v ELSE entries[x]]

\* HashMap::remove / HashSet::remove (used by other threads only).
Remove(entries, k) ==
    [x \in (DOMAIN entries) \ {k} |-> entries[x]]

\* The items a pinned view iterates: (key, value) pairs of a map, keys of a set.
ItemsOf(k, entries) ==
    IF k \in MapKinds
    THEN {<<x, entries[x]>> : x \in DOMAIN entries}
    ELSE DOMAIN entries

\* No container (before construction, or for a call that has none).
Absent ==
    [state |-> "absent", via |-> "-", capacity |-> 0, hasher |-> "-",
     scope |-> "-", collector |-> 0, entries |-> EmptyEntries]

Live(entries) ==
    [state |-> "live", via |-> "caller", capacity |-> 0, hasher |-> "default",
     scope |-> "owned", collector |-> 0, entries |-> entries]

\* ---------------------------------------------------------------- state
VARIABLES
    kind,        \* kind[c]: the entry point call c runs ("none": no call)
    pc,          \* pc[c]: the statement call c is at
    self,        \* self[c]: the container a serialize call reads (&self)
    view,        \* view[c]: entries the pinned view of self[c] iterates
    atPin,       \* atPin[c]: entries of self[c] when its Guard was acquired
    fed,         \* fed[c]: items handed to the serializer, in order
    nmut,        \* nmut[c]: mutations other threads applied to self[c]
    stream,      \* stream[c]: items the decoder delivers, in order
    ending,      \* ending[c]: NoErr (end of input) or the decoder's error
    hint,        \* hint[c]: what access.size_hint() returns
    values,      \* values[c]: the container the visitor builds
    requests,    \* requests[c]: next_entry / next_element calls made
    inserted,    \* inserted[c]: items inserted into values[c], in order
    guards,      \* guards[c]: Guards the call holds (acquired by pin())
    acquired,    \* acquired[c]: Guards the call has acquired so far
    callerGuard, \* callerGuard[c]: the caller's own Guard behind a *Ref
    err,         \* err[c]: the error being propagated by `?`, or NoErr
    ret,         \* ret[c]: what the call returned to its caller
    collectors,  \* number of Collectors created so far
    chain,       \* chain[c]: how the harness chained this call to the last
    prev,        \* prev[c]: the previous call: its stream, hint and result
    seen         \* seen[c]: contents of values[c] that other threads have read

callVars == <<kind, pc, err, ret>>
serVars == <<self, view, atPin, fed, nmut>>
deVars == <<stream, ending, hint, values, requests, inserted>>
guardVars == <<guards, acquired, callerGuard>>
harnessVars == <<chain, prev, seen>>
vars == <<callVars, serVars, deVars, guardVars, harnessVars, collectors>>

NoRet == [tag |-> "none", err |-> NoErr]
RetOk == [tag |-> "Ok", err |-> NoErr]
RetErr(e) == [tag |-> "Err", err |-> e]

\* ---------------------------------------------------------------- inputs
\* What one call is invoked with.
SerInputs ==
    [kind : SerMapKinds, entries : MapEntries, items : {<<>>},
     ending : {NoErr}, hint : {None}]
    \cup
    [kind : SerSetKinds, entries : SetEntries, items : {<<>>},
     ending : {NoErr}, hint : {None}]

DeInputs ==
    [kind : {"MapVisitor_visit_map"}, entries : {EmptyEntries},
     items : SeqsUpTo(Keys \X Vals, MaxLen),
     ending : {NoErr} \cup Errors, hint : Hints]
    \cup
    [kind : SetVisitorKinds, entries : {EmptyEntries},
     items : SeqsUpTo(Keys, MaxLen),
     ending : {NoErr} \cup Errors, hint : Hints]

Inputs == SerInputs \cup DeInputs

Idle ==
    [kind |-> "none", entries |-> EmptyEntries, items |-> <<>>,
     ending |-> NoErr, hint |-> None]

NoPrev == [stream |-> <<>>, hint |-> None, entries |-> EmptyEntries]

\* The state in which every call c is about to run on input in[c].
Setup(in) ==
    /\ kind = [c \in Calls |-> in[c].kind]
    \* A *Ref::serialize has nothing to do before collect_map / collect_seq.
    /\ pc = [c \in Calls |->
               IF in[c].kind = "none" THEN "idle"
               ELSE IF in[c].kind \in RefKinds THEN "collect" ELSE "call"]
    /\ self = [c \in Calls |->
                 IF in[c].kind \in SerKinds THEN Live(in[c].entries) ELSE Absent]
    \* A HashMapRef / HashSetRef is a view the caller pinned before the call.
    /\ view = [c \in Calls |->
                 IF in[c].kind \in RefKinds THEN in[c].entries ELSE EmptyEntries]
    /\ atPin = [c \in Calls |->
                 IF in[c].kind \in RefKinds THEN in[c].entries ELSE EmptyEntries]
    /\ callerGuard = [c \in Calls |-> in[c].kind \in RefKinds]
    /\ fed = [c \in Calls |-> <<>>]
    /\ nmut = [c \in Calls |-> 0]
    /\ stream = [c \in Calls |-> in[c].items]
    /\ ending = [c \in Calls |-> in[c].ending]
    /\ hint = [c \in Calls |-> in[c].hint]
    /\ values = [c \in Calls |-> Absent]
    /\ requests = [c \in Calls |-> 0]
    /\ inserted = [c \in Calls |-> <<>>]
    /\ guards = [c \in Calls |-> 0]
    /\ acquired = [c \in Calls |-> 0]
    /\ err = [c \in Calls |-> NoErr]
    /\ ret = [c \in Calls |-> NoRet]
    /\ collectors = 0
    /\ chain = [c \in Calls |-> "first"]
    /\ prev = [c \in Calls |-> NoPrev]
    /\ seen = [c \in Calls |-> {}]

\* One call at a time: call 1 runs, call 2 never starts.
Init == \E in1 \in Inputs : Setup([c \in Calls |-> IF c = 1 THEN in1 ELSE Idle])

\* ------------------------------------------------- Scoped Snapshot Reader
\* HashMap::serialize / HashSet::serialize: self.pin() acquires a Guard and
\* yields the pinned view, whose serialize is then called.
SerializePin(c) ==
    /\ kind[c] \in SerKinds \ RefKinds
    /\ pc[c] = "call"
    /\ guards' = [guards EXCEPT ![c] = @ + 1]
    /\ acquired' = [acquired EXCEPT ![c] = @ + 1]
    /\ view' = [view EXCEPT ![c] = self[c].entries]
    /\ atPin' = [atPin EXCEPT ![c] = self[c].entries]
    /\ pc' = [pc EXCEPT ![c] = "collect"]
    /\ UNCHANGED <<kind, err, ret, self, fed, nmut, deVars, callerGuard,
                   harnessVars, collectors>>

\* Mutant: the view follows the live container instead of being as of the
\* acquisition of its Guard.
ViewEntries_Live(c) == self[c].entries

\* What the pinned view of call c iterates: the entries as of the acquisition
\* of its Guard.
ViewEntries(c) == view[c]

\* The items of the view that collect_map / collect_seq has not reached yet.
Remaining(c) == ItemsOf(kind[c], ViewEntries(c)) \ Range(fed[c])

\* Mutant: a draining iteration, which removes what it emits.
CollectItem_Drain(c) ==
    /\ kind[c] \in SerKinds
    /\ pc[c] = "collect"
    /\ \E item \in Remaining(c), e \in {NoErr} \cup Errors :
          /\ fed' = [fed EXCEPT ![c] = Append(@, item)]
          /\ self' = [self EXCEPT ![c].entries =
                        Remove(@, IF kind[c] \in MapKinds THEN item[1] ELSE item)]
          /\ err' = [err EXCEPT ![c] = e]
          /\ pc' = [pc EXCEPT ![c] = IF e = NoErr THEN "collect" ELSE "drop"]
    /\ UNCHANGED <<kind, ret, view, atPin, nmut, deVars, guardVars,
                   harnessVars, collectors>>

\* collect_map / collect_seq feeds the next item of the view to the
\* serializer, which accepts it (e = NoErr) or fails with e.
CollectItem(c) ==
    /\ kind[c] \in SerKinds
    /\ pc[c] = "collect"
    /\ \E item \in Remaining(c), e \in {NoErr} \cup Errors :
          /\ fed' = [fed EXCEPT ![c] = Append(@, item)]
          /\ err' = [err EXCEPT ![c] = e]
          /\ pc' = [pc EXCEPT ![c] = IF e = NoErr THEN "collect" ELSE "drop"]
    /\ UNCHANGED <<kind, ret, self, view, atPin, nmut, deVars, guardVars,
                   harnessVars, collectors>>

\* The view is exhausted (or not yet started): the serializer's own begin /
\* end step succeeds at the end, or fails with e at either edge.
CollectEdge(c) ==
    /\ kind[c] \in SerKinds
    /\ pc[c] = "collect"
    /\ \E e \in {NoErr} \cup Errors :
          /\ IF e = NoErr THEN Remaining(c) = {}
                          ELSE Remaining(c) = {} \/ fed[c] = <<>>
          /\ err' = [err EXCEPT ![c] = e]
    /\ pc' = [pc EXCEPT ![c] = "drop"]
    /\ UNCHANGED <<kind, ret, serVars, deVars, guardVars, harnessVars,
                   collectors>>

\* Mutant: a *Ref::serialize that consumes the view, releasing the caller's
\* Guard with it.
SerializeDrop_ReleasesCaller(c) ==
    /\ kind[c] \in SerKinds
    /\ pc[c] = "drop"
    /\ guards' = [guards EXCEPT ![c] = IF kind[c] \in RefKinds THEN @ ELSE @ - 1]
    /\ callerGuard' = [callerGuard EXCEPT ![c] = FALSE]
    /\ pc' = [pc EXCEPT ![c] = "return"]
    /\ UNCHANGED <<kind, err, ret, serVars, deVars, acquired, harnessVars,
                   collectors>>

\* End of `self.pin().serialize(serializer)`: the temporary pinned view is
\* dropped, which releases its Guard.  A caller's *Ref keeps its Guard.
SerializeDrop(c) ==
    /\ kind[c] \in SerKinds
    /\ pc[c] = "drop"
    /\ guards' = [guards EXCEPT ![c] = IF kind[c] \in RefKinds THEN @ ELSE @ - 1]
    /\ pc' = [pc EXCEPT ![c] = "return"]
    /\ UNCHANGED <<kind, err, ret, serVars, deVars, acquired, callerGuard,
                   harnessVars, collectors>>

\* Mutant: the serializer's error replaced by one of the bridge's own.
SerializeReturn_Wrapped(c) ==
    /\ kind[c] \in SerKinds
    /\ pc[c] = "return"
    /\ ret' = [ret EXCEPT ![c] = IF err[c] = NoErr THEN RetOk ELSE RetErr("e1")]
    /\ pc' = [pc EXCEPT ![c] = "done"]
    /\ UNCHANGED <<kind, err, serVars, deVars, guardVars, harnessVars,
                   collectors>>

\* The Result reaches the caller: Ok, or the serializer's error as it is.
SerializeReturn(c) ==
    /\ kind[c] \in SerKinds
    /\ pc[c] = "return"
    /\ ret' = [ret EXCEPT ![c] = IF err[c] = NoErr THEN RetOk ELSE RetErr(err[c])]
    /\ pc' = [pc EXCEPT ![c] = "done"]
    /\ UNCHANGED <<kind, err, serVars, deVars, guardVars, harnessVars,
                   collectors>>

\* Another thread inserts into or removes from the container being serialized.
Mutate(c) ==
    /\ kind[c] \in SerKinds
    /\ pc[c] \in {"call", "collect", "drop", "return"}
    /\ nmut[c] < MaxMutations
    /\ \E k \in Keys :
          \/ \E v \in (IF kind[c] \in MapKinds THEN Vals ELSE {Unit}) :
                self' = [self EXCEPT ![c].entries = Insert(@, k, v)]
          \/ /\ k \in DOMAIN self[c].entries
             /\ self' = [self EXCEPT ![c].entries = Remove(@, k)]
    /\ nmut' = [nmut EXCEPT ![c] = @ + 1]
    /\ UNCHANGED <<callVars, view, atPin, fed, deVars, guardVars, harnessVars,
                   collectors>>

\* --------------------------------------------------- Incremental Builders
\* Mutant: the hint is ignored, the map always built by default().
MapVisitor_new_Default(h) ==
    [state |-> "live", via |-> "default", capacity |-> 0,
     hasher |-> "default", scope |-> "owned", entries |-> EmptyEntries]

\* MapVisitor::visit_map, lines 89-92: with_capacity_and_hasher(size,
\* S::default()) under a hint, HashMap::default() without one.
MapVisitor_new(h) ==
    [state |-> "live",
     via |-> IF h = None THEN "default" ELSE "with_capacity_and_hasher",
     capacity |-> SizeOr(h, 0),
     hasher |-> "default", scope |-> "owned", entries |-> EmptyEntries]

\* SetVisitor<K, S, Collector>::visit_seq, lines 197-200: the same for a set.
SetVisitor_new(h) ==
    [state |-> "live",
     via |-> IF h = None THEN "default" ELSE "with_capacity_and_hasher",
     capacity |-> SizeOr(h, 0),
     hasher |-> "default", scope |-> "owned", entries |-> EmptyEntries]

\* Mutant: the shared-scope visitor builds a set on a Collector of its own,
\* like the private-scope one.
SetVisitorArc_new_Owned(h) ==
    [state |-> "live", via |-> "builder", capacity |-> SizeOr(h, 0),
     hasher |-> "default", scope |-> "owned", entries |-> EmptyEntries]

\* SetVisitor<K, S, Arc<Collector>>::visit_seq, lines 228-239:
\* HashSet::builder().hasher(S::default())
\*     .shared_collector(Arc::new(Collector::new())).capacity(size or 0).build()
SetVisitorArc_new(h) ==
    [state |-> "live", via |-> "builder", capacity |-> SizeOr(h, 0),
     hasher |-> "default", scope |-> "shared", entries |-> EmptyEntries]

NewValues(k, h) ==
    CASE k = "MapVisitor_visit_map" -> MapVisitor_new(h)
      [] k = "SetVisitor_visit_seq" -> SetVisitor_new(h)
      [] k = "SetVisitorArc_visit_seq" -> SetVisitorArc_new(h)

\* Mutant: the container is built where other threads already hold a
\* reference to it (deserializing in place into a shared container).
Construct_Published(c) ==
    /\ kind[c] \in DeKinds
    /\ pc[c] = "call"
    /\ collectors' = collectors + 1
    /\ values' = [values EXCEPT ![c] =
                    [collector |-> collectors + 1, state |-> "returned"]
                    @@ NewValues(kind[c], hint[c])]
    /\ pc' = [pc EXCEPT ![c] = "pin"]
    /\ UNCHANGED <<kind, err, ret, serVars, stream, ending, hint, requests,
                   inserted, guardVars, harnessVars>>

\* `let values = match access.size_hint() { ... }`: the empty container,
\* on a Collector of its own.
Construct(c) ==
    /\ kind[c] \in DeKinds
    /\ pc[c] = "call"
    /\ collectors' = collectors + 1
    /\ values' = [values EXCEPT ![c] =
                    [collector |-> collectors + 1] @@ NewValues(kind[c], hint[c])]
    /\ pc' = [pc EXCEPT ![c] = "pin"]
    /\ UNCHANGED <<kind, err, ret, serVars, stream, ending, hint, requests,
                   inserted, guardVars, harnessVars>>

\* Mutant: `let _ = values.pin();`: the Guard is dropped at once.
VisitPin_Discarded(c) ==
    /\ kind[c] \in DeKinds
    /\ pc[c] = "pin"
    /\ acquired' = [acquired EXCEPT ![c] = @ + 1]
    /\ pc' = [pc EXCEPT ![c] = "next"]
    /\ UNCHANGED <<kind, err, ret, serVars, deVars, guards, callerGuard,
                   harnessVars, collectors>>

\* `let values = values.pin();`
VisitPin(c) ==
    /\ kind[c] \in DeKinds
    /\ pc[c] = "pin"
    /\ guards' = [guards EXCEPT ![c] = @ + 1]
    /\ acquired' = [acquired EXCEPT ![c] = @ + 1]
    /\ pc' = [pc EXCEPT ![c] = "next"]
    /\ UNCHANGED <<kind, err, ret, serVars, deVars, callerGuard, harnessVars,
                   collectors>>

\* Mutant: `while let Ok(Some(..))`: a decoder error ends the loop like the
\* end of the input.
NextItem_SwallowErr(c) ==
    /\ kind[c] \in DeKinds
    /\ pc[c] = "next"
    /\ requests' = [requests EXCEPT ![c] = @ + 1]
    /\ pc' = [pc EXCEPT ![c] =
                IF requests[c] < Len(stream[c]) THEN "insert" ELSE "drop"]
    /\ UNCHANGED <<kind, err, ret, serVars, stream, ending, hint, values,
                   inserted, guardVars, harnessVars, collectors>>

\* Mutant: the size hint bounds the loop (`for _ in 0..size`).
NextItem_HintBounded(c) ==
    /\ kind[c] \in DeKinds
    /\ pc[c] = "next"
    /\ IF requests[c] >= SizeOr(hint[c], requests[c] + 1)
       THEN /\ pc' = [pc EXCEPT ![c] = "drop"]
            /\ UNCHANGED <<requests, err>>
       ELSE /\ requests' = [requests EXCEPT ![c] = @ + 1]
            /\ IF requests[c] < Len(stream[c])
               THEN /\ pc' = [pc EXCEPT ![c] = "insert"]
                    /\ err' = err
               ELSE /\ pc' = [pc EXCEPT ![c] = "drop"]
                    /\ err' = [err EXCEPT ![c] = ending[c]]
    /\ UNCHANGED <<kind, ret, serVars, stream, ending, hint, values, inserted,
                   guardVars, harnessVars, collectors>>

\* Mutant: `if let Some(..)` for `while let Some(..)`: one item at most.
NextItem_IfLet(c) ==
    /\ kind[c] \in DeKinds
    /\ pc[c] = "next"
    /\ requests' = [requests EXCEPT ![c] = @ + 1]
    /\ IF requests[c] < Len(stream[c]) /\ requests[c] = 0
       THEN /\ pc' = [pc EXCEPT ![c] = "insert"]
            /\ err' = err
       ELSE /\ pc' = [pc EXCEPT ![c] = "drop"]
            /\ err' = [err EXCEPT ![c] =
                         IF requests[c] < Len(stream[c]) THEN NoErr ELSE ending[c]]
    /\ UNCHANGED <<kind, ret, serVars, stream, ending, hint, values, inserted,
                   guardVars, harnessVars, collectors>>

\* `access.next_entry()?` / `access.next_element()?`: Some(item) enters the
\* loop body, None leaves the loop, Err(e) leaves the function by `?`.
NextItem(c) ==
    /\ kind[c] \in DeKinds
    /\ pc[c] = "next"
    /\ requests' = [requests EXCEPT ![c] = @ + 1]
    /\ IF requests[c] < Len(stream[c])
       THEN /\ pc' = [pc EXCEPT ![c] = "insert"]
            /\ err' = err
       ELSE /\ pc' = [pc EXCEPT ![c] = "drop"]
            /\ err' = [err EXCEPT ![c] = ending[c]]
    /\ UNCHANGED <<kind, ret, serVars, stream, ending, hint, values, inserted,
                   guardVars, harnessVars, collectors>>

\* The key and value an item is inserted as.
KeyOf(k, item) == IF k \in MapKinds THEN item[1] ELSE item
\* Mutant: `values.insert(key, key)`.
ValOf_Key(k, item) == IF k \in MapKinds THEN item[1] ELSE Unit
ValOf(k, item) == IF k \in MapKinds THEN item[2] ELSE Unit

\* Mutant: an occupied key keeps its value (try_insert for insert).
InsertItem_KeepFirst(c) ==
    /\ kind[c] \in DeKinds
    /\ pc[c] = "insert"
    /\ LET item == stream[c][requests[c]]
           k == KeyOf(kind[c], item) IN
          /\ values' = [values EXCEPT ![c].entries =
                          IF k \in DOMAIN @ THEN @
                          ELSE Insert(@, k, ValOf(kind[c], item))]
          /\ inserted' = [inserted EXCEPT ![c] = Append(@, item)]
    /\ pc' = [pc EXCEPT ![c] = "next"]
    /\ UNCHANGED <<kind, err, ret, serVars, stream, ending, hint, requests,
                   guardVars, harnessVars, collectors>>

\* Mutant: the loop ends at the first item whose key is already present.
InsertItem_BreakOnDup(c) ==
    /\ kind[c] \in DeKinds
    /\ pc[c] = "insert"
    /\ LET item == stream[c][requests[c]]
           k == KeyOf(kind[c], item) IN
          /\ values' = [values EXCEPT ![c].entries =
                          Insert(@, k, ValOf(kind[c], item))]
          /\ inserted' = [inserted EXCEPT ![c] = Append(@, item)]
          /\ pc' = [pc EXCEPT ![c] =
                      IF k \in DOMAIN values[c].entries THEN "drop" ELSE "next"]
    /\ UNCHANGED <<kind, err, ret, serVars, stream, ending, hint, requests,
                   guardVars, harnessVars, collectors>>

\* Mutant: the visitor keeps its container in a static shared by all
\* calls: a call inserts into the container of the first call while that
\* one is being built.
InsertItem_SharedTarget(c) ==
    /\ kind[c] \in DeKinds
    /\ pc[c] = "insert"
    /\ LET item == stream[c][requests[c]]
           first == CHOOSE d \in Calls : \A x \in Calls : d <= x
           t == IF values[first].state = "live" THEN first ELSE c IN
          /\ values' = [values EXCEPT ![t].entries =
                          Insert(@, KeyOf(kind[c], item), ValOf(kind[c], item))]
          /\ inserted' = [inserted EXCEPT ![c] = Append(@, item)]
    /\ pc' = [pc EXCEPT ![c] = "next"]
    /\ UNCHANGED <<kind, err, ret, serVars, stream, ending, hint, requests,
                   guardVars, harnessVars, collectors>>

\* Mutant: `values.pin().insert(..)` in the loop: a Guard for every item.
InsertItem_PinPerItem(c) ==
    /\ kind[c] \in DeKinds
    /\ pc[c] = "insert"
    /\ LET item == stream[c][requests[c]] IN
          /\ values' = [values EXCEPT ![c].entries =
                          Insert(@, KeyOf(kind[c], item), ValOf(kind[c], item))]
          /\ inserted' = [inserted EXCEPT ![c] = Append(@, item)]
    /\ acquired' = [acquired EXCEPT ![c] = @ + 1]
    /\ pc' = [pc EXCEPT ![c] = "next"]
    /\ UNCHANGED <<kind, err, ret, serVars, stream, ending, hint, requests,
                   guards, callerGuard, harnessVars, collectors>>

\* Mutant: the loop body inserts the item of the previous iteration.
InsertItem_Stale(c) ==
    /\ kind[c] \in DeKinds
    /\ pc[c] = "insert"
    /\ LET item == stream[c][IF requests[c] > 1 THEN requests[c] - 1
                                                ELSE requests[c]] IN
          /\ values' = [values EXCEPT ![c].entries =
                          Insert(@, KeyOf(kind[c], item), ValOf(kind[c], item))]
          /\ inserted' = [inserted EXCEPT ![c] = Append(@, item)]
    /\ pc' = [pc EXCEPT ![c] = "next"]
    /\ UNCHANGED <<kind, err, ret, serVars, stream, ending, hint, requests,
                   guardVars, harnessVars, collectors>>

\* `values.insert(key, value);` / `values.insert(key);`
InsertItem(c) ==
    /\ kind[c] \in DeKinds
    /\ pc[c] = "insert"
    /\ LET item == stream[c][requests[c]] IN
          /\ values' = [values EXCEPT ![c].entries =
                          Insert(@, KeyOf(kind[c], item), ValOf(kind[c], item))]
          /\ inserted' = [inserted EXCEPT ![c] = Append(@, item)]
    /\ pc' = [pc EXCEPT ![c] = "next"]
    /\ UNCHANGED <<kind, err, ret, serVars, stream, ending, hint, requests,
                   guardVars, harnessVars, collectors>>

\* Mutant: an explicit release at the end of the block, which `?` skips.
VisitDrop_LeakOnErr(c) ==
    /\ kind[c] \in DeKinds
    /\ pc[c] = "drop"
    /\ guards' = [guards EXCEPT ![c] = IF err[c] = NoErr THEN @ - 1 ELSE @]
    /\ values' = [values EXCEPT ![c].state =
                    IF err[c] = NoErr THEN @ ELSE "dropped"]
    /\ pc' = [pc EXCEPT ![c] = "return"]
    /\ UNCHANGED <<kind, err, ret, serVars, stream, ending, hint, requests,
                   inserted, acquired, callerGuard, harnessVars, collectors>>

\* The inner block ends, or `?` leaves it: the pinned reference is dropped,
\* which releases the Guard; on the `?` path the container, a local of the
\* function, is dropped after it.
VisitDrop(c) ==
    /\ kind[c] \in DeKinds
    /\ pc[c] = "drop"
    /\ guards' = [guards EXCEPT ![c] = @ - 1]
    /\ values' = [values EXCEPT ![c].state =
                    IF err[c] = NoErr THEN @ ELSE "dropped"]
    /\ pc' = [pc EXCEPT ![c] = "return"]
    /\ UNCHANGED <<kind, err, ret, serVars, stream, ending, hint, requests,
                   inserted, acquired, callerGuard, harnessVars, collectors>>

\* Mutant: a decoder error ends the loop by `break`, and what was built so
\* far is returned.
VisitReturn_Partial(c) ==
    /\ kind[c] \in DeKinds
    /\ pc[c] = "return"
    /\ ret' = [ret EXCEPT ![c] = RetOk]
    /\ values' = [values EXCEPT ![c].state = "returned"]
    /\ pc' = [pc EXCEPT ![c] = "done"]
    /\ UNCHANGED <<kind, err, serVars, stream, ending, hint, requests,
                   inserted, guardVars, harnessVars, collectors>>

\* `Ok(values)` moves the container to the caller; `?` returned Err(e).
VisitReturn(c) ==
    /\ kind[c] \in DeKinds
    /\ pc[c] = "return"
    /\ ret' = [ret EXCEPT ![c] = IF err[c] = NoErr THEN RetOk ELSE RetErr(err[c])]
    /\ values' = [values EXCEPT ![c].state =
                    IF err[c] = NoErr THEN "returned" ELSE @]
    /\ pc' = [pc EXCEPT ![c] = "done"]
    /\ UNCHANGED <<kind, err, serVars, stream, ending, hint, requests,
                   inserted, guardVars, harnessVars, collectors>>

\* A thread other than the one running call c reads the container call c
\* built, through a reference to it: only the caller, once the container
\* was returned to it, has one to share.
Observe(c) ==
    /\ kind[c] \in DeKinds
    /\ values[c].state = "returned"
    /\ values[c].entries \notin seen[c]
    /\ seen' = [seen EXCEPT ![c] = @ \cup {values[c].entries}]
    /\ UNCHANGED <<callVars, serVars, deVars, guardVars, chain, prev,
                   collectors>>

\* One step of a visitor.
VisitStep(c) ==
    \/ Construct(c)
    \/ VisitPin(c)
    \/ NextItem(c)
    \/ InsertItem(c)
    \/ VisitDrop(c)
    \/ VisitReturn(c)

\* ---------------------------------------------------------------- harness
\* A new deserialize call on the same thread, after the previous call ended.
StartVisit(c, k, items, h, how) ==
    /\ kind' = [kind EXCEPT ![c] = k]
    /\ pc' = [pc EXCEPT ![c] = "call"]
    /\ err' = [err EXCEPT ![c] = NoErr]
    /\ ret' = [ret EXCEPT ![c] = NoRet]
    /\ stream' = [stream EXCEPT ![c] = items]
    /\ ending' = [ending EXCEPT ![c] = NoErr]
    /\ hint' = [hint EXCEPT ![c] = h]
    /\ prev' = [prev EXCEPT ![c] = [stream |-> stream[c], hint |-> hint[c],
                                     entries |-> values[c].entries]]
    /\ values' = [values EXCEPT ![c] = Absent]
    /\ requests' = [requests EXCEPT ![c] = 0]
    /\ inserted' = [inserted EXCEPT ![c] = <<>>]
    /\ acquired' = [acquired EXCEPT ![c] = 0]
    /\ chain' = [chain EXCEPT ![c] = how]
    /\ seen' = [seen EXCEPT ![c] = {}]
    /\ UNCHANGED <<serVars, guards, callerGuard, collectors>>

\* test_map / test_set: what a successful serialize emitted is deserialized.
FromStr(c) ==
    /\ kind[c] \in SerKinds \ RefKinds
    /\ pc[c] = "done"
    /\ ret[c] = RetOk
    /\ \E h \in Hints :
       \E k \in (IF kind[c] \in MapKinds THEN {"MapVisitor_visit_map"}
                                         ELSE SetVisitorKinds) :
          StartVisit(c, k, fed[c], h, "roundtrip")

\* s without the later occurrences of its repeated elements.
RECURSIVE Dedup(_)
Dedup(s) ==
    IF s = <<>> THEN <<>>
    ELSE LET front == Dedup(SubSeq(s, 1, Len(s) - 1))
             last == s[Len(s)]
         IN IF last \in Range(front) THEN front ELSE Append(front, last)

\* The same visitor run again on the same stream, without a size hint.
RebuildNoHint(c) ==
    /\ kind[c] \in DeKinds
    /\ pc[c] = "done"
    /\ ret[c] = RetOk
    /\ chain[c] = "first"
    /\ StartVisit(c, kind[c], stream[c], None, "nohint")

\* The same set visitor run again on the stream with its repeats removed.
RebuildDedup(c) ==
    /\ kind[c] \in SetVisitorKinds
    /\ pc[c] = "done"
    /\ ret[c] = RetOk
    /\ chain[c] = "first"
    /\ StartVisit(c, kind[c], Dedup(stream[c]), hint[c], "dedup")

\* The caller iterates the set a deserialize call returned to it, the way
\* HashSet::serialize does: a new call on the same thread.
ThenIterate(c) ==
    /\ kind[c] \in SetVisitorKinds
    /\ pc[c] = "done"
    /\ ret[c] = RetOk
    /\ chain[c] = "first"
    /\ kind' = [kind EXCEPT ![c] = "HashSet_serialize"]
    /\ pc' = [pc EXCEPT ![c] = "call"]
    /\ ret' = [ret EXCEPT ![c] = NoRet]
    /\ self' = [self EXCEPT ![c] = [values[c] EXCEPT !.state = "live"]]
    /\ view' = [view EXCEPT ![c] = EmptyEntries]
    /\ atPin' = [atPin EXCEPT ![c] = EmptyEntries]
    /\ fed' = [fed EXCEPT ![c] = <<>>]
    /\ acquired' = [acquired EXCEPT ![c] = 0]
    /\ chain' = [chain EXCEPT ![c] = "iterate"]
    /\ UNCHANGED <<err, nmut, deVars, guards, callerGuard, prev, seen,
                   collectors>>

\* ---------------------------------------------------------- specification
Next ==
    \E c \in Calls :
        \/ SerializePin(c)
        \/ CollectItem(c)
        \/ CollectEdge(c)
        \/ SerializeDrop(c)
        \/ SerializeReturn(c)
        \/ Mutate(c)
        \/ Construct(c)
        \/ VisitPin(c)
        \/ NextItem(c)
        \/ InsertItem(c)
        \/ VisitDrop(c)
        \/ VisitReturn(c)
        \/ FromStr(c)
        \/ RebuildNoHint(c)
        \/ RebuildDedup(c)
        \/ Observe(c)

Spec == Init /\ [][Next]_vars

\* One visitor call, from its start to its return.  A visitor is
\* synchronous code driven by a decoder over a finite stream: it keeps
\* taking steps until it returns.
InitBuild == \E in1 \in DeInputs : Setup([c \in Calls |-> IF c = 1 THEN in1 ELSE Idle])
NextBuild == \E c \in Calls : VisitStep(c)
SpecBuild ==
    InitBuild /\ [][NextBuild]_vars /\ \A c \in Calls : WF_vars(VisitStep(c))

\* Inputs of calls that run interleaved with another call.
ConcHints == {None, Some(MaxConcLen)}
ConcEndings == {NoErr, "e1"}
ConcSetInputs(k, keys, endings, hints) ==
    [kind : {k}, entries : {EmptyEntries}, items : SeqsUpTo(keys, MaxConcLen),
     ending : endings, hint : hints]
ConcMapInputs ==
    [kind : {"MapVisitor_visit_map"}, entries : {EmptyEntries},
     items : SeqsUpTo(Keys \X Vals, MaxConcLen),
     ending : ConcEndings, hint : {None}]
ConcSerInputs ==
    [kind : {"HashSet_serialize"}, entries : SetEntries, items : {<<>>},
     ending : {NoErr}, hint : {None}]

\* One step of a serialize call.
SerializeStep(c) ==
    \/ SerializePin(c)
    \/ CollectItem(c)
    \/ CollectEdge(c)
    \/ SerializeDrop(c)
    \/ SerializeReturn(c)

\* Two threads each deserialize a set in shared-scope mode and then iterate
\* the set they got, every step of one interleaved with the steps of the
\* other.  The decoder of the first thread may give a hint and may fail; the
\* second thread's input repeats one key.
InitShared ==
    \E in1 \in ConcSetInputs("SetVisitorArc_visit_seq", Keys, ConcEndings,
                             ConcHints),
       in2 \in ConcSetInputs("SetVisitorArc_visit_seq", {0}, {NoErr}, {None}) :
        Setup([c \in Calls |-> IF c = 1 THEN in1 ELSE in2])
NextShared ==
    \E c \in Calls : VisitStep(c) \/ ThenIterate(c) \/ SerializeStep(c)
SpecShared == InitShared /\ [][NextShared]_vars

\* Two threads run one call each, interleaved: a map deserialization on one,
\* a set deserialization or a set serialization on the other.
InitTwo ==
    \E in1 \in ConcMapInputs,
       in2 \in ConcSetInputs("SetVisitor_visit_seq", Keys, ConcEndings, {None})
                 \cup ConcSerInputs :
        Setup([c \in Calls |-> IF c = 1 THEN in1 ELSE in2])
NextTwo == \E c \in Calls : VisitStep(c) \/ SerializeStep(c)
SpecTwo == InitTwo /\ [][NextTwo]_vars

\* ------------------------------------------------------------------ claims
Done(c) == pc[c] = "done"
\* Call c is a finished deserialization of what a serialize call emitted
\* while no other thread touched the container.
RoundTripDone(c) == Done(c) /\ chain[c] = "roundtrip" /\ nmut[c] = 0

\* C1: map round trip.  With no concurrent mutation, what HashMap::serialize
\* emits, fed to MapVisitor::visit_map in the emitted order (whatever it
\* is), yields Ok and a map with the key set and per-key values of the
\* original map.
C1_MapRoundTrip ==
    \A c \in Calls :
        (RoundTripDone(c) /\ kind[c] = "MapVisitor_visit_map") =>
            /\ ret[c] = RetOk
            /\ values[c].state = "returned"
            /\ DOMAIN values[c].entries = DOMAIN self[c].entries
            /\ \A k \in DOMAIN self[c].entries :
                  values[c].entries[k] = self[c].entries[k]

\* A two-entry map with distinct values went round, key 1 emitted first.
C1_Witness ==
    \E c \in Calls :
        /\ RoundTripDone(c) /\ kind[c] = "MapVisitor_visit_map"
        /\ DOMAIN self[c].entries = Keys
        /\ self[c].entries[0] = 1 /\ self[c].entries[1] = 0
        /\ stream[c][1][1] = 1
        /\ values[c].entries = self[c].entries

\* C2: set round trip.  With no concurrent mutation, what HashSet::serialize
\* emits, fed to either set visitor's visit_seq in the emitted order,
\* yields Ok and a set with exactly the members of the original set.
C2_SetRoundTrip ==
    \A c \in Calls :
        (RoundTripDone(c) /\ kind[c] \in SetVisitorKinds) =>
            /\ ret[c] = RetOk
            /\ values[c].state = "returned"
            /\ DOMAIN values[c].entries = DOMAIN self[c].entries

\* A two-element set went round, element 1 emitted first.
C2_Witness ==
    \E c \in Calls :
        /\ RoundTripDone(c) /\ kind[c] = "SetVisitor_visit_seq"
        /\ DOMAIN self[c].entries = Keys
        /\ stream[c] = <<1, 0>>
        /\ DOMAIN values[c].entries = Keys

\* The keys of a pair stream and the position of a key's last occurrence.
StreamKeys(s) == {s[i][1] : i \in DOMAIN s}
LastIndex(s, k) ==
    CHOOSE i \in DOMAIN s : s[i][1] = k /\ \A j \in DOMAIN s : s[j][1] = k => j <= i

\* C3: last-write-wins.  For a pair stream that ends without error,
\* visit_map returns a map whose keys are exactly the keys of the stream,
\* each with the value of its last occurrence in the stream.
C3_LastWriteWins ==
    \A c \in Calls :
        (Done(c) /\ kind[c] = "MapVisitor_visit_map" /\ ending[c] = NoErr) =>
            /\ ret[c] = RetOk
            /\ values[c].state = "returned"
            /\ DOMAIN values[c].entries = StreamKeys(stream[c])
            /\ \A k \in StreamKeys(stream[c]) :
                  values[c].entries[k] = stream[c][LastIndex(stream[c], k)][2]

\* A stream that writes key 0 twice, with another key in between.
C3_Witness ==
    \E c \in Calls :
        /\ Done(c) /\ kind[c] = "MapVisitor_visit_map" /\ ending[c] = NoErr
        /\ stream[c] = <<<<0, 0>>, <<1, 1>>, <<0, 1>>>>
        /\ values[c].entries[0] = 1

\* C4: duplicate collapse.  For an element stream that ends without error,
\* in both set visitors, the members of the returned set are exactly the
\* distinct elements of the stream, and the set built from the stream
\* without its repeated elements is the same set.
C4_DuplicateCollapse ==
    \A c \in Calls :
        (Done(c) /\ kind[c] \in SetVisitorKinds /\ ending[c] = NoErr) =>
            /\ ret[c] = RetOk
            /\ DOMAIN values[c].entries = Range(stream[c])
            /\ chain[c] = "dedup" =>
                  /\ values[c].entries = prev[c].entries
                  /\ DOMAIN values[c].entries = Range(prev[c].stream)

\* The shared-scope visitor rebuilt <<0, 1, 0>> from <<0, 1>>.
C4_Witness ==
    \E c \in Calls :
        /\ Done(c) /\ kind[c] = "SetVisitorArc_visit_seq" /\ chain[c] = "dedup"
        /\ prev[c].stream = <<0, 1, 0>>
        /\ stream[c] = <<0, 1>>
        /\ DOMAIN prev[c].entries = Keys

\* C5: release on every exit path.  A call holds no Guard before it starts,
\* none once its scope is left and its result is about to be returned, and
\* none in its terminal state, whether it succeeded or failed: every Guard
\* it acquired is released before the value or the error reaches the caller.
C5_ReleaseOnEveryExit ==
    \A c \in Calls :
        /\ guards[c] \in {0, 1}
        /\ pc[c] \in {"idle", "call", "return", "done"} => guards[c] = 0
        /\ ret[c] # NoRet => guards[c] = 0

\* A deserialization that acquired its Guard failed and has returned.
C5_Witness ==
    \E c \in Calls :
        /\ Done(c) /\ kind[c] \in DeKinds
        /\ ret[c] = RetErr("e2")
        /\ acquired[c] = 1 /\ guards[c] = 0
        /\ Len(inserted[c]) = 2

IsPrefix(s, t) == Len(s) <= Len(t) /\ \A i \in DOMAIN s : s[i] = t[i]

\* C6: abort on decoder error.  When the decoder's stream ends in an error
\* (reported at request k = Len(stream) + 1), the builder makes no request
\* beyond the k-th, inserts exactly the k-1 items delivered before it and
\* nothing after, never hands the container to the caller, and returns that
\* error with the container dropped.
C6_AbortOnDecoderError ==
    \A c \in Calls :
        (kind[c] \in DeKinds /\ ending[c] # NoErr) =>
            /\ requests[c] <= Len(stream[c]) + 1
            /\ IsPrefix(inserted[c], stream[c])
            /\ values[c].state # "returned"
            /\ ret[c] # RetOk
            /\ requests[c] = Len(stream[c]) + 1 =>
                  /\ inserted[c] = stream[c]
                  /\ err[c] = ending[c]
            /\ Done(c) =>
                  /\ ret[c] = RetErr(ending[c])
                  /\ values[c].state = "dropped"
                  /\ requests[c] = Len(stream[c]) + 1

\* The decoder failed at the third request, after two pairs were inserted.
C6_Witness ==
    \E c \in Calls :
        /\ Done(c) /\ kind[c] = "MapVisitor_visit_map"
        /\ ending[c] = "e1" /\ ret[c] = RetErr("e1")
        /\ Len(stream[c]) = 2 /\ requests[c] = 3
        /\ DOMAIN values[c].entries = Keys
        /\ values[c].state = "dropped"

\* C7: hint independence.  The container a visitor builds from a stream
\* under any size hint (0, the true count, smaller, larger) has the same
\* contents as the one it builds from the same stream with no hint.
C7_HintIndependence ==
    \A c \in Calls :
        (Done(c) /\ chain[c] = "nohint") =>
            /\ hint[c] = None
            /\ stream[c] = prev[c].stream
            /\ ret[c] = RetOk
            /\ values[c].entries = prev[c].entries

\* A three-item stream built under hint 1 and again under no hint.
C7_Witness ==
    \E c \in Calls :
        /\ Done(c) /\ chain[c] = "nohint"
        /\ prev[c].hint = Some(1)
        /\ Len(stream[c]) = 3
        /\ DOMAIN values[c].entries = Keys

\* C8: point-in-time snapshot.  Whatever other threads insert or remove
\* while a serialize call runs, every item fed to the serializer is an item
\* the container held when the call's Guard was acquired, none is fed
\* twice, and a call whose serializer never failed has fed all of them.
C8_PointInTimeSnapshot ==
    \A c \in Calls :
        kind[c] \in SerKinds =>
            /\ Range(fed[c]) \subseteq ItemsOf(kind[c], atPin[c])
            /\ Cardinality(Range(fed[c])) = Len(fed[c])
            /\ (pc[c] \in {"drop", "return", "done"} /\ err[c] = NoErr) =>
                  Range(fed[c]) = ItemsOf(kind[c], atPin[c])

\* A serialize call ended Ok after another thread changed the container
\* under it.
C8_Witness ==
    \E c \in Calls :
        /\ Done(c) /\ kind[c] = "HashMap_serialize" /\ ret[c] = RetOk
        /\ nmut[c] = 2
        /\ DOMAIN atPin[c] = {0} /\ DOMAIN self[c].entries = {1}
        /\ fed[c] = <<<<0, atPin[c][0]>>>>

\* C9: serialize is read-only.  No step of a call changes the contents of
\* the container being serialized, on the success path and on the path
\* where the serializer fails: the container changes only by another
\* thread's mutation.
C9_SerializeReadOnly ==
    [][\A c \in Calls : nmut'[c] = nmut[c] => self'[c] = self[c]]_vars

\* A serialize call failed on its second item and the container is as it
\* was.
C9_Witness ==
    \E c \in Calls :
        /\ Done(c) /\ kind[c] \in SerKinds /\ ret[c].tag = "Err"
        /\ Len(fed[c]) = 2 /\ nmut[c] = 0
        /\ self[c].entries = atPin[c]

\* C10: serializer failure.  Once the serializer has failed, the call feeds
\* it no further item and keeps that error; the call returns exactly that
\* error, and a result once returned is never replaced; no item is fed
\* twice.
C10_SerializerFailure ==
    [][\A c \in Calls :
         (kind[c] \in SerKinds /\ kind'[c] \in SerKinds) =>
            /\ err[c] # NoErr =>
                  /\ fed'[c] = fed[c]
                  /\ err'[c] = err[c]
                  /\ Done(c)' => ret'[c] = RetErr(err[c])
            /\ ret[c] # NoRet => ret'[c] = ret[c]
            /\ Cardinality(Range(fed'[c])) = Len(fed'[c])]_vars

\* The serializer failed with e2 on the second item; the call returned e2.
C10_Witness ==
    \E c \in Calls :
        /\ Done(c) /\ kind[c] = "HashSetRef_serialize"
        /\ ret[c] = RetErr("e2")
        /\ Len(fed[c]) = 2

\* The builder's state: Start before the container is constructed, Complete
\* once Ok(values) was returned, Aborted once Err(e) was returned, Building
\* in between.
Phase(c) ==
    IF pc[c] = "call" THEN "Start"
    ELSE IF pc[c] = "done" THEN (IF ret[c] = RetOk THEN "Complete" ELSE "Aborted")
    ELSE "Building"

\* C14: builder state machine.  Every deserialization starts in Start and
\* eventually reaches a terminal state, which is Complete or Aborted and
\* never both; it is Complete exactly when the stream ended without a
\* decoder error; the container is in the caller's hands only in Complete;
\* after a terminal state there is no insert, no request and no other state.
C14_BuilderStateMachine ==
    /\ \A c \in Calls : kind[c] \in DeKinds => Phase(c) = "Start"
    /\ [](\A c \in Calls :
            kind[c] \in DeKinds =>
               /\ Done(c) => /\ ret[c] \in {RetOk, RetErr(ending[c])}
                             /\ ret[c] = RetOk <=> ending[c] = NoErr
               /\ values[c].state = "returned" <=> Phase(c) = "Complete")
    /\ [][\A c \in Calls :
            Done(c) => /\ Done(c)'
                       /\ ret'[c] = ret[c]
                       /\ inserted'[c] = inserted[c]
                       /\ requests'[c] = requests[c]]_vars
    /\ \A c \in Calls : kind[c] \in DeKinds => <>Done(c)

\* A build reached Aborted after one insert.
C14_Witness ==
    \E c \in Calls :
        /\ kind[c] \in DeKinds /\ Phase(c) = "Aborted"
        /\ ending[c] = "e2" /\ Len(inserted[c]) = 1 /\ requests[c] = 2

\* C15: single Guard per build.  A deserialization acquires its one Guard
\* after the container exists and before the first request, never a
\* second one, whatever the number of items; every insert is made with
\* that Guard held before and after it.
C15_SingleGuardPerBuild ==
    /\ [](\A c \in Calls :
            kind[c] \in DeKinds =>
               /\ acquired[c] <= 1 /\ guards[c] <= acquired[c]
               /\ acquired[c] = 1 => values[c].state # "absent"
               /\ requests[c] > 0 => acquired[c] = 1
               /\ pc[c] \in {"next", "insert"} => guards[c] = 1
               /\ Done(c) => acquired[c] = 1)
    /\ [][\A c \in Calls :
            (kind[c] \in DeKinds /\ Len(inserted'[c]) > Len(inserted[c])) =>
               /\ guards[c] = 1 /\ guards'[c] = 1
               /\ acquired[c] = 1 /\ acquired'[c] = 1]_vars

\* A build of three items ended with one Guard acquired.
C15_Witness ==
    \E c \in Calls :
        /\ Done(c) /\ kind[c] \in DeKinds
        /\ Len(inserted[c]) = 3 /\ acquired[c] = 1 /\ guards[c] = 0

\* Items the decoder has delivered to call c so far.
Delivered(c) ==
    IF requests[c] <= Len(stream[c]) THEN requests[c] ELSE Len(stream[c])

\* C16: insertion order.  The inserts a builder has made are the items the
\* decoder has delivered, in the decoder's order; only the item just
\* delivered may still be waiting, so each item is inserted before the
\* next request; when the build ends, by end of input or by a decoder
\* error at request k, the inserts are all k-1 delivered items in order.
C16_InsertionOrder ==
    \A c \in Calls :
        kind[c] \in DeKinds =>
            /\ Len(inserted[c]) =
                  Delivered(c) - (IF pc[c] = "insert" THEN 1 ELSE 0)
            /\ \A i \in 1 .. Len(inserted[c]) : inserted[c][i] = stream[c][i]
            /\ pc[c] \in {"drop", "return", "done"} =>
                  /\ requests[c] = Len(stream[c]) + 1
                  /\ inserted[c] = stream[c]

\* The decoder delivered 1 then 0 and failed at the third request.
C16_Witness ==
    \E c \in Calls :
        /\ Done(c) /\ kind[c] = "SetVisitor_visit_seq"
        /\ ending[c] = "e1" /\ requests[c] = 3
        /\ inserted[c] = <<1, 0>>

\* C18: pre-sizing.  Under a count hint n the container is created with
\* capacity n and the default hash strategy (by the configuration step in
\* the shared-scope visitor); under no hint it is created by default() (by
\* the configuration step with capacity 0 in the shared-scope visitor); it
\* is empty when the first item is requested.
C18_PreSizing ==
    \A c \in Calls :
        (kind[c] \in DeKinds /\ values[c].state # "absent") =>
            /\ values[c].hasher = "default"
            /\ \A n \in 0 .. MaxLen + 1 :
                  hint[c] = Some(n) =>
                     /\ values[c].capacity = n
                     /\ values[c].via =
                           IF kind[c] = "SetVisitorArc_visit_seq"
                           THEN "builder" ELSE "with_capacity_and_hasher"
            /\ hint[c] = None =>
                  IF kind[c] = "SetVisitorArc_visit_seq"
                  THEN values[c].via = "builder" /\ values[c].capacity = 0
                  ELSE values[c].via = "default"
            /\ requests[c] = 0 => values[c].entries = EmptyEntries

\* A map pre-sized for two entries, about to request its first item.
C18_Witness ==
    \E c \in Calls :
        /\ kind[c] = "MapVisitor_visit_map" /\ pc[c] = "next"
        /\ requests[c] = 0 /\ hint[c] = Some(2)
        /\ values[c].capacity = 2 /\ Len(stream[c]) = 3

\* C19: serializing a pinned view (HashMapRef / HashSetRef) acquires no
\* Guard and releases none, the caller's Guard being held throughout, on
\* the Ok and on the error path; serializing the container acquires one
\* Guard, holds it while the items are fed, and has released it when the
\* result is returned.
C19_PinnedViewKeepsGuard ==
    \A c \in Calls :
        /\ kind[c] \in RefKinds =>
              acquired[c] = 0 /\ guards[c] = 0 /\ callerGuard[c]
        /\ kind[c] \in SerKinds \ RefKinds =>
              /\ ~callerGuard[c]
              /\ acquired[c] <= 1 /\ guards[c] <= 1
              /\ pc[c] = "call" => acquired[c] = 0
              /\ pc[c] \in {"collect", "drop"} => acquired[c] = 1 /\ guards[c] = 1
              /\ pc[c] \in {"return", "done"} => acquired[c] = 1 /\ guards[c] = 0

\* A HashMapRef's serialize failed on its second pair; the caller's Guard
\* is still held.
C19_Witness ==
    \E c \in Calls :
        /\ Done(c) /\ kind[c] = "HashMapRef_serialize"
        /\ ret[c] = RetErr("e1") /\ Len(fed[c]) = 2
        /\ callerGuard[c] /\ acquired[c] = 0

\* A build that is under way or failing and holds at least one item.
Intermediate(c) ==
    /\ kind[c] \in DeKinds
    /\ pc[c] \in {"next", "insert", "drop", "return"}
    /\ Len(inserted[c]) > 0

\* C12 as stated: in the intermediate states of a deserialization, a
\* separate thread that reads the target container can observe it.
C12_PartialStateObservable ==
    \A c \in Calls : Intermediate(c) => ENABLED Observe(c)

\* C12, amended: the container under construction passes through
\* intermediate states, but no other thread can read it before the call
\* returns: what another thread reads is the complete container of a call
\* that returned Ok, and the container of a failed call is never read.
C12_PartialStateNotObservable ==
    \A c \in Calls :
        kind[c] \in DeKinds =>
            /\ ~Done(c) => ~ENABLED Observe(c) /\ seen[c] = {}
            /\ ret[c] # RetOk => ~ENABLED Observe(c) /\ seen[c] = {}
            /\ \A e \in seen[c] :
                  /\ inserted[c] = stream[c] /\ ending[c] = NoErr
                  /\ e = values[c].entries

\* A build holds one of the three items of its stream.
C12_Witness ==
    \E c \in Calls :
        /\ Intermediate(c) /\ pc[c] = "next"
        /\ Len(inserted[c]) = 1 /\ Len(stream[c]) = 3
        /\ values[c].state = "live"
        /\ KeyOf(kind[c], stream[c][2]) \notin DOMAIN values[c].entries

\* The sets built in shared-scope mode that exist (under construction, or
\* returned to their caller).
SharedSets == {c \in Calls : values[c].state \in {"live", "returned"}
                              /\ values[c].scope = "shared"}

\* No data race: an item is inserted and a view is read only under a Guard
\* of the container, and the entries of a container are freed (with the
\* container, when a failed build drops it) only when no Guard on it is
\* left.
NoRace ==
    \A c \in Calls :
        /\ pc[c] = "insert" => guards[c] = 1
        /\ pc[c] = "collect" => guards[c] = 1 \/ callerGuard[c]
        /\ values[c].state = "dropped" => guards[c] = 0

\* C11 as stated: the two sets deserialized in shared-scope mode are on one
\* jointly supplied reclamation scope, and deserializing and iterating
\* them concurrently is free of data races under every interleaving.
C11_JointScopeNoRace ==
    /\ \A c, d \in SharedSets : values[c].collector = values[d].collector
    /\ NoRace

\* C11, amended: the two sets deserialized in shared-scope mode are each on
\* a reclamation scope of their own, created by their deserialize call
\* (none can be supplied), and deserializing and iterating them
\* concurrently is free of data races under every interleaving.
C11_OwnScopeNoRace ==
    /\ \A c, d \in SharedSets : c # d => values[c].collector # values[d].collector
    /\ \A c \in SharedSets : values[c].collector \in 1 .. collectors
    /\ NoRace

\* One thread iterates the set it deserialized while the other is still
\* inserting into its own.
C11_Witness ==
    /\ SharedSets = Calls
    /\ kind[1] = "HashSet_serialize" /\ pc[1] = "collect" /\ Len(fed[1]) = 1
    /\ kind[2] = "SetVisitorArc_visit_seq" /\ pc[2] = "insert"
    /\ Len(inserted[2]) = 1
    /\ guards[1] = 1 /\ guards[2] = 1

\* What a visitor returns for a stream when it runs alone: the last value
\* written for each key of a pair stream, the elements of an element stream.
AloneResult(k, s) ==
    IF k \in MapKinds
    THEN [x \in StreamKeys(s) |-> s[LastIndex(s, x)][2]]
    ELSE [x \in Range(s) |-> Unit]

\* The state of call c.
Local(c) ==
    <<kind[c], pc[c], err[c], ret[c], self[c], view[c], fed[c], stream[c],
      ending[c], hint[c], values[c], requests[c], inserted[c], guards[c],
      acquired[c]>>

\* C13: independent calls.  With two calls interleaved on two threads, every
\* step changes the state of one call only; a deserialize call has inserted
\* items of its own stream only, and returns what it returns when run
\* alone: Ok with the container of its own stream, or its decoder's error.
C13_IndependentCalls ==
    /\ [](\A c \in Calls :
            kind[c] \in DeKinds =>
               /\ IsPrefix(inserted[c], stream[c])
               /\ values[c].entries = AloneResult(kind[c], inserted[c])
               /\ Done(c) =>
                     IF ending[c] = NoErr
                     THEN /\ ret[c] = RetOk
                          /\ values[c].state = "returned"
                          /\ values[c].entries = AloneResult(kind[c], stream[c])
                     ELSE ret[c] = RetErr(ending[c]))
    /\ [][\E c \in Calls : \A d \in Calls \ {c} : Local(d)' = Local(d)]_vars

\* The set visitor, started first, is half way through its stream when the
\* map visitor returns.
C13_Witness ==
    /\ kind[1] = "MapVisitor_visit_map" /\ Done(1) /\ ret[1] = RetOk
    /\ Len(stream[1]) = 2 /\ values[1].collector = 2
    /\ kind[2] = "SetVisitor_visit_seq" /\ pc[2] = "insert"
    /\ Len(inserted[2]) = 1 /\ values[2].collector = 1

\* C17: shared-scope construction.  A shared-scope deserialization builds
\* its set by the configuration step (default hasher, capacity of the hint
\* or 0, shared scope) on a scope created for it; a returned set's scope is
\* held by no other container; mode and scope of a set never change.
C17_SharedScopeConstruction ==
    /\ [](\A c \in Calls :
            values[c].state # "absent" =>
               /\ values[c].scope = "shared"
               /\ values[c].via = "builder"
               /\ values[c].hasher = "default"
               /\ values[c].capacity = SizeOr(hint[c], 0)
               /\ values[c].collector \in 1 .. collectors
               /\ values[c].state = "returned" =>
                     \A d \in Calls \ {c} :
                        /\ values[d].collector # values[c].collector
                        /\ self[d].collector # values[c].collector
               /\ self[c].state = "live" =>
                     /\ self[c].scope = "shared"
                     /\ self[c].collector = values[c].collector)
    /\ [][\A c \in Calls :
            /\ values[c].state = "absent" /\ values'[c].state # "absent" =>
                  /\ collectors' = collectors + 1
                  /\ values'[c].collector = collectors'
            /\ values[c].state # "absent" =>
                  /\ values'[c].scope = values[c].scope
                  /\ values'[c].collector = values[c].collector
            /\ self[c].state # "absent" =>
                  /\ self'[c].scope = self[c].scope
                  /\ self'[c].collector = self[c].collector]_vars

\* Both sets were returned, the first built under a hint, and the second
\* is being iterated.
C17_Witness ==
    /\ values[1].state = "returned" /\ values[2].state = "returned"
    /\ hint[1] = Some(MaxConcLen) /\ values[1].capacity = MaxConcLen
    /\ values[1].collector = 2 /\ values[2].collector = 1
    /\ kind[2] = "HashSet_serialize" /\ pc[2] = "collect"
    /\ self[2].scope = "shared"

====
